---- MODULE Spec2Model ----
(***************************************************************************)
(* A model of ewerobot's EClient (src/ewerobot/ewerobot.py) and of the     *)
(* signature helper (src/ewerobot/util.py).                                *)
(*                                                                         *)
(* The client is synchronous: one call runs at a time, and a call may call *)
(* other methods of the client.  The model is a call stack of frames; one  *)
(* action is one straight-line piece of a method, from a point where the   *)
(* method is entered or resumed to the point where it calls another        *)
(* modelled method, returns or raises.  The platform (the HTTP server) is  *)
(* the environment: every reply it can give is drawn with \E.              *)
(***************************************************************************)
EXTENDS Integers, Sequences, FiniteSets, TLC

VARIABLES
    token,                    \* self._token
    token_expires_at,         \* self.token_expires_at
    ticket,                   \* self._jsapi_ticket
    jsapi_ticket_expires_at,  \* self.jsapi_ticket_expires_at
    clock,                    \* time.time(), in ticks of 1/TicksPerSecond s
    stack,                    \* the call stack, innermost frame last
    sign_param,               \* get_signature: the mapping given (first call)
    sign_param2,              \* get_signature: the mapping given (second call)
    signature,                \* get_signature: result of the first call
    signature2,               \* get_signature: result of the second call
    json,                     \* check_error: the decoded body given
    classified,               \* check_error: what it returned or raised
    content,                  \* send_all_text_message: the content given
    config,                   \* get_jssdk_config: url and the config built
    threads,                  \* two threads sharing the client: their get_access_token calls
    written                   \* which thread wrote _token / token_expires_at last

cache == <<token, token_expires_at, ticket, jsapi_ticket_expires_at>>
signing == <<sign_param, sign_param2, signature, signature2>>
extra == <<json, classified, content, config, threads, written>>
vars == <<token, token_expires_at, ticket, jsapi_ticket_expires_at, clock,
          stack, sign_param, sign_param2, signature, signature2,
          json, classified, content, config, threads, written>>

----------------------------------------------------------------------------
(* Bounds of the model *)

\* ticks of the clock per second: time.time() is a float, int(time.time())
\* truncates it
TicksPerSecond == 2
\* the clock stops advancing at MaxClock ticks
MaxClock == 2
\* deepest call stack; the platform answers 40001 only where the refresh it
\* starts (two more frames) still fits
MaxDepth == 4
\* number of parameters of a mapping given to get_signature
MaxParams == 2

----------------------------------------------------------------------------
(* Program constants *)

\* if self.token_expires_at - now > 60
Margin == 60
\* a decorator that gives up one attempt early
stop_one_attempt_early == 1 + 1
\* @retry(stop_max_attempt_number=3, ...)
stop_max_attempt_number == 3
\* if json['errcode'] == 40001
AccessTokenInvalidCode == 40001
\* self.token_expires_at = None
NoExpiry == -1

----------------------------------------------------------------------------
(* Values *)

None == "None"
Absent == "absent"
\* no errcode in the body
NoCode == 0 - 1

\* the values the platform issues
TokenValues == {"a1", "a2"}
TicketValues == {"t1", "t2"}
\* expires_in of a reply, in seconds
TTLs == {30, 61}
\* an errcode that is neither 0 nor 40001
OtherCode == AccessTokenInvalidCode + 12
\* what a caller passes as params["access_token"]: its own value (replaced
\* by request unless the call is delegated) or the end user's credential
CallerValue == "caller"
UserValue == "oauth2"

\* a decoded JSON body: errcode/errmsg (the envelope), the credential
\* fields, and whether it holds anything else
Body(errcode, errmsg, value, ttl, data) ==
    [errcode |-> errcode, errmsg |-> errmsg, value |-> value, ttl |-> ttl,
     data |-> data]
\* {}
EmptyBody == Body(NoCode, "", Absent, NoExpiry, FALSE)
ErrorBody(code) ==
    Body(code, IF code = AccessTokenInvalidCode THEN "invalid credential"
               ELSE "invalid appid", Absent, NoExpiry, FALSE)

\* a reply of the platform: a body, or the transport failing
Reply(kind, j) == [kind |-> kind, j |-> j]
NoReply == Reply("none", EmptyBody)
TransportFailures == {"ReadTimeout", "ConnectTimeout", "HTTPError"}

CredentialValues(ep) == IF ep = "token" THEN TokenValues ELSE TicketValues

SuccessBodies(ep) ==
    IF ep = "api"
    THEN {EmptyBody, Body(0, "ok", Absent, NoExpiry, FALSE)}
    ELSE {Body(NoCode, "", v, t, FALSE) : v \in CredentialValues(ep), t \in TTLs}
         \cup {Body(NoCode, "", v, NoExpiry, FALSE) : v \in CredentialValues(ep)}
         \cup {EmptyBody}

\* a value a method returns or the exception it raises
Pending == [k |-> "pending", s |-> None, j |-> EmptyBody, e |-> "", code |-> NoCode, msg |-> ""]
RStr(s) == [Pending EXCEPT !.k = "str", !.s = s]
RJson(j) == [Pending EXCEPT !.k = "json", !.j = j]
RNone == [Pending EXCEPT !.k = "none"]
RExc(x) == [Pending EXCEPT !.k = "exc", !.e = x.e, !.code = x.code, !.msg = x.msg]
Exc(e, code, msg) == [e |-> e, code |-> code, msg |-> msg]
Plain(e) == Exc(e, NoCode, "")
Raised(r) == Exc(r.e, r.code, r.msg)

----------------------------------------------------------------------------
(* Frames of the call stack *)

\* One frame per active call of get_access_token, get_jsapi_ticket or
\* request.  pc is where the call stands; out is what it returned or raised
\* once pc = "done".  For a request: ep is the endpoint ("api", "token" for
\* grant_token, "ticket" for jsapi_ticket), shape says whether params was
\* given ("none") and whether it holds an access_token entry ("with",
\* "without"), flag is oauth2_access_token, attempt is the attempt_number of
\* the retry decorator, carried the access_token the attempt is sent with.
\* Bookkeeping that the code does not hold: lastReply (the platform's reply
\* to this attempt), nsent (sends so far), allRetry (every attempt so far
\* was sent and answered by 40001 or a timeout), fatalAt (the attempt that
\* was answered by another error code or a transport error that is no
\* timeout; 0 if none was), invalid (the credential the
\* attempt before was sent with, when the platform answered it 40001 and
\* self._token has not been assigned since; None otherwise),
\* snapVal/snapExp (the cached credential when a get was called).
Frame(fn, force, ep, shape, flag, carried, snapVal, snapExp) ==
    [fn |-> fn, pc |-> IF fn = "request" THEN "begin" ELSE "check",
     force |-> force, ep |-> ep, shape |-> shape, flag |-> flag,
     attempt |-> IF fn = "request" THEN 1 ELSE 0, carried |-> carried,
     lastReply |-> NoReply, nsent |-> 0, allRetry |-> TRUE, fatalAt |-> 0,
     invalid |-> None,
     snapVal |-> snapVal, snapExp |-> snapExp,
     out |-> Pending]

GetAccessTokenFrame(force) ==
    Frame("get_access_token", force, "-", "-", FALSE, None, token, token_expires_at)
GetJsapiTicketFrame(force) ==
    Frame("get_jsapi_ticket", force, "-", "-", FALSE, None, ticket,
          jsapi_ticket_expires_at)
RequestFrame(ep, shape, flag) ==
    Frame("request", FALSE, ep, shape, flag,
          IF shape = "with" THEN (IF flag THEN UserValue ELSE CallerValue) ELSE None,
          None, NoExpiry)

Top == stack[Len(stack)]
Caller == stack[Len(stack) - 1]
\* the stack without its n innermost frames
Outer(n) == SubSeq(stack, 1, Len(stack) - n)
Running(fn, pc) == Len(stack) >= 1 /\ Top.fn = fn /\ Top.pc = pc
\* callee has returned to fn, which waits for it at pc
Returned(callee, fn, pc) ==
    /\ Len(stack) >= 2
    /\ Top.fn = callee /\ Top.pc = "done"
    /\ Caller.fn = fn /\ Caller.pc = pc
Done(f, r) == [f EXCEPT !.pc = "done", !.out = r]

\* int(time.time())
IntTime == clock \div TicksPerSecond
\* a margin test that takes a credential with exactly 60 s left
UsableAtMargin(expires_at) ==
    expires_at * TicksPerSecond - clock >= Margin * TicksPerSecond
\* expires_at - now > 60, now = time.time()
Usable(expires_at) ==
    expires_at * TicksPerSecond - clock > Margin * TicksPerSecond

----------------------------------------------------------------------------
(* check_error, retry_exception *)

\* a check_error that knows no code of its own for the invalid credential
check_error_no_sentinel(j) ==
    IF j.errcode # NoCode /\ j.errcode # 0
    THEN IF j.errmsg = Absent
         THEN RExc(Plain("KeyError"))
         ELSE RExc(Exc("ClientException", j.errcode, j.errmsg))
    ELSE RJson(j)
\* check_error(json): the body itself, or the exception raised;
\* json["errmsg"] of a body without errmsg raises KeyError
check_error(j) ==
    IF j.errcode # NoCode /\ j.errcode # 0
    THEN IF j.errmsg = Absent
         THEN RExc(Plain("KeyError"))
         ELSE IF j.errcode = AccessTokenInvalidCode
         THEN RExc(Exc("AccessTokenInvalid", j.errcode, j.errmsg))
         ELSE RExc(Exc("ClientException", j.errcode, j.errmsg))
    ELSE RJson(j)

\* a predicate that retries every error of the platform or the transport
retry_exception_any(x) ==
    x.e \in {"AccessTokenInvalid", "ReadTimeout", "ConnectTimeout",
             "ClientException", "HTTPError"}
\* a predicate that retries timeouts only
retry_exception_timeouts(x) == x.e \in {"ReadTimeout", "ConnectTimeout"}
\* retry_on_exception of the decorator
retry_exception(x) ==
    x.e \in {"AccessTokenInvalid", "ReadTimeout", "ConnectTimeout"}

\* bool(json) of a decoded body: an empty dict is falsy
Truthy(j) == j # EmptyBody

----------------------------------------------------------------------------
(* Entry points: a caller of the client starts one call when none runs *)

CallGetAccessToken ==
    /\ stack = <<>>
    /\ \E force \in BOOLEAN : stack' = <<GetAccessTokenFrame(force)>>
    /\ UNCHANGED <<cache, clock, signing, extra>>

CallGetJsapiTicket ==
    /\ stack = <<>>
    /\ \E force \in BOOLEAN : stack' = <<GetJsapiTicketFrame(force)>>
    /\ UNCHANGED <<cache, clock, signing, extra>>

\* self.get(...) / self.post(...) of an API method: get_industry (no
\* params), get_oauth2_access_token_by_code (params without access_token),
\* get_sns_user_info (params with access_token, oauth2_access_token=True)
CallRequest ==
    /\ stack = <<>>
    /\ \E shape \in {"none", "with", "without"}, flag \in BOOLEAN :
          stack' = <<RequestFrame("api", shape, flag)>>
    /\ UNCHANGED <<cache, clock, signing, extra>>

\* the outermost call hands its result to the caller of the client
Return ==
    /\ Len(stack) = 1
    /\ Top.pc = "done"
    /\ stack' = <<>>
    /\ UNCHANGED <<cache, clock, signing, extra>>

\* time passes
Tick ==
    /\ clock < MaxClock
    /\ clock' = clock + 1
    /\ UNCHANGED <<cache, stack, signing, extra>>

----------------------------------------------------------------------------
(* get_access_token *)

\* self._token was assigned: no request on the stack holds a credential
\* older than the cached one
MarkFetched(s) ==
    [i \in 1..Len(s) |-> [s[i] EXCEPT !.invalid = None]]

\* a test that forgets force
UseCachedWhateverForce(force, value) == value # None
\* if not force and self._token / if not force and self._jsapi_ticket
UseCached(force, value) == ~force /\ value # None

\* lines 58-62: the freshness test, then grant_token() = self.get(url,
\* params={grant_type, appid, secret}), a request without access_token
get_access_token_check ==
    /\ Running("get_access_token", "check")
    /\ LET f == Top IN
       IF UseCached(f.force, token)
       THEN IF token_expires_at = NoExpiry
            THEN \* None - float
                 stack' = Outer(1) \o <<Done(f, RExc(Plain("TypeError")))>>
            ELSE IF Usable(token_expires_at)
                 THEN stack' = Outer(1) \o <<Done(f, RStr(token))>>
                 ELSE stack' = Outer(1) \o <<[f EXCEPT !.pc = "store"],
                                            RequestFrame("token", "without", FALSE)>>
       ELSE stack' = Outer(1) \o <<[f EXCEPT !.pc = "store"],
                                  RequestFrame("token", "without", FALSE)>>
    /\ UNCHANGED <<cache, clock, signing, extra>>

\* a client with one timer for both credentials: storing the token's expiry
\* sets the ticket's too
get_access_token_store_one_timer ==
    /\ Returned("request", "get_access_token", "store")
    /\ Top.out.k = "json" /\ Top.out.j.value # Absent /\ Top.out.j.ttl # NoExpiry
    /\ token' = Top.out.j.value
    /\ token_expires_at' = IntTime + Top.out.j.ttl
    /\ jsapi_ticket_expires_at' = IntTime + Top.out.j.ttl
    /\ stack' = MarkFetched(Outer(2)) \o <<Done(Caller, RStr(Top.out.j.value))>>
    /\ UNCHANGED <<ticket, clock, signing, extra>>

\* lines 62-65: grant_token() came back
get_access_token_store ==
    /\ Returned("request", "get_access_token", "store")
    /\ LET r == Top.out
           f == Caller
       IN  CASE r.k = "exc" ->
                 /\ stack' = Outer(2) \o <<Done(f, r)>>
                 /\ UNCHANGED <<token, token_expires_at>>
             [] r.k = "none" ->
                 \* None["access_token"]
                 /\ stack' = Outer(2) \o <<Done(f, RExc(Plain("TypeError")))>>
                 /\ UNCHANGED <<token, token_expires_at>>
             [] r.k = "json" /\ r.j.value = Absent ->
                 /\ stack' = Outer(2) \o <<Done(f, RExc(Plain("KeyError")))>>
                 /\ UNCHANGED <<token, token_expires_at>>
             [] r.k = "json" /\ r.j.value # Absent /\ r.j.ttl = NoExpiry ->
                 \* line 63 has run when line 64 raises
                 /\ token' = r.j.value
                 /\ stack' = MarkFetched(Outer(2)) \o <<Done(f, RExc(Plain("KeyError")))>>
                 /\ UNCHANGED token_expires_at
             [] OTHER ->
                 /\ token' = r.j.value
                 /\ token_expires_at' = IntTime + r.j.ttl
                 /\ stack' = MarkFetched(Outer(2)) \o <<Done(f, RStr(r.j.value))>>
    /\ UNCHANGED <<ticket, jsapi_ticket_expires_at, clock, signing, extra>>

----------------------------------------------------------------------------
(* get_jsapi_ticket *)

\* lines 76-80 and jsapi_ticket() up to its params: 'access_token':
\* self.token, the property of the base client, is get_access_token()
get_jsapi_ticket_check ==
    /\ Running("get_jsapi_ticket", "check")
    /\ LET f == Top IN
       IF UseCached(f.force, ticket)
       THEN IF jsapi_ticket_expires_at = NoExpiry
            THEN stack' = Outer(1) \o <<Done(f, RExc(Plain("TypeError")))>>
            ELSE IF Usable(jsapi_ticket_expires_at)
                 THEN stack' = Outer(1) \o <<Done(f, RStr(ticket))>>
                 ELSE stack' = Outer(1) \o <<[f EXCEPT !.pc = "jsapi_ticket"],
                                            GetAccessTokenFrame(FALSE)>>
       ELSE stack' = Outer(1) \o <<[f EXCEPT !.pc = "jsapi_ticket"],
                                  GetAccessTokenFrame(FALSE)>>
    /\ UNCHANGED <<cache, clock, signing, extra>>

\* jsapi_ticket(): self.get(url, params={'type', 'access_token'})
jsapi_ticket ==
    /\ Returned("get_access_token", "get_jsapi_ticket", "jsapi_ticket")
    /\ LET r == Top.out
           f == Caller
       IN  IF r.k = "exc"
           THEN stack' = Outer(2) \o <<Done(f, r)>>
           ELSE stack' = Outer(2) \o <<[f EXCEPT !.pc = "store"],
                                      RequestFrame("ticket", "with", FALSE)>>
    /\ UNCHANGED <<cache, clock, signing, extra>>

\* lines 80-83: jsapi_ticket() came back; line 83 returns self._token
get_jsapi_ticket_store ==
    /\ Returned("request", "get_jsapi_ticket", "store")
    /\ LET r == Top.out
           f == Caller
       IN  CASE r.k = "exc" ->
                 /\ stack' = Outer(2) \o <<Done(f, r)>>
                 /\ UNCHANGED <<ticket, jsapi_ticket_expires_at>>
             [] r.k = "none" ->
                 /\ stack' = Outer(2) \o <<Done(f, RExc(Plain("TypeError")))>>
                 /\ UNCHANGED <<ticket, jsapi_ticket_expires_at>>
             [] r.k = "json" /\ r.j.value = Absent ->
                 /\ stack' = Outer(2) \o <<Done(f, RExc(Plain("KeyError")))>>
                 /\ UNCHANGED <<ticket, jsapi_ticket_expires_at>>
             [] r.k = "json" /\ r.j.value # Absent /\ r.j.ttl = NoExpiry ->
                 /\ ticket' = r.j.value
                 /\ stack' = Outer(2) \o <<Done(f, RExc(Plain("KeyError")))>>
                 /\ UNCHANGED jsapi_ticket_expires_at
             [] OTHER ->
                 /\ ticket' = r.j.value
                 /\ jsapi_ticket_expires_at' = IntTime + r.j.ttl
                 /\ stack' = Outer(2) \o <<Done(f, RStr(token))>>
    /\ UNCHANGED <<token, token_expires_at, clock, signing, extra>>

----------------------------------------------------------------------------
(* request, under @retry(stop_max_attempt_number=3, retry_on_exception) *)

\* a request without the elif of line 90
InjectsTokenNoParamsOnly(shape, flag) == shape = "none"
\* a request that forgets the flag of the delegated call
InjectsTokenWhateverFlag(shape, flag) == shape # "without"
\* lines 87-91: the attempt puts self.token into params
InjectsToken(shape, flag) ==
    shape = "none" \/ (shape = "with" /\ ~flag)

\* kwargs.pop('oauth2_access_token', False) runs only when params holds an
\* access_token; otherwise the keyword stays in kwargs and requests.request
\* raises TypeError for it
FlagLeft(shape, flag) == flag /\ shape # "with"

ReplyClass(r) ==
    IF r.kind # "body" THEN r.kind
    ELSE IF r.j.errcode = NoCode \/ r.j.errcode = 0 THEN "ok"
    ELSE IF r.j.errcode = AccessTokenInvalidCode THEN "40001"
    ELSE "error"

RetryableReplies == {"40001", "ReadTimeout", "ConnectTimeout"}
FatalReplies == {"error", "HTTPError"}

\* what the platform may answer to a request of frame f
Replies(f) ==
    {Reply(k, EmptyBody) : k \in TransportFailures}
    \cup {Reply("body", j) : j \in SuccessBodies(f.ep)}
    \cup {Reply("body", ErrorBody(OtherCode))}
    \cup (IF Len(stack) + 2 <= MaxDepth
          THEN {Reply("body", ErrorBody(AccessTokenInvalidCode))} ELSE {})

\* the decorator: the attempt of frame f raised x
EndAttempt(f, x) ==
    LET g == [f EXCEPT !.allRetry = @ /\ ReplyClass(f.lastReply) \in RetryableReplies]
    IN  IF retry_exception(x) /\ f.attempt < stop_max_attempt_number
        THEN \* the next attempt gets a new kwargs, with the caller's params
             [g EXCEPT !.pc = "begin", !.attempt = @ + 1,
                       !.lastReply = NoReply,
                       !.carried = IF f.shape = "none" THEN None ELSE @,
                       !.invalid = IF ReplyClass(f.lastReply) = "40001" THEN @ ELSE None]
        ELSE Done(g, RExc(x))

\* lines 87-91
request_begin ==
    /\ Running("request", "begin")
    /\ LET f == Top IN
       IF InjectsToken(f.shape, f.flag)
       THEN stack' = Outer(1) \o <<[f EXCEPT !.pc = "token"], GetAccessTokenFrame(FALSE)>>
       ELSE IF FlagLeft(f.shape, f.flag)
            THEN stack' = Outer(1) \o <<EndAttempt(f, Plain("TypeError"))>>
            ELSE stack' = Outer(1) \o <<[f EXCEPT !.pc = "send"]>>
    /\ UNCHANGED <<cache, clock, signing, extra>>

\* lines 88/91: self.token came back
request_token ==
    /\ Returned("get_access_token", "request", "token")
    /\ LET r == Top.out
           f == Caller
           g == [f EXCEPT !.carried = r.s, !.invalid = None]
       IN  IF r.k = "exc"
           THEN stack' = Outer(2) \o <<EndAttempt(f, Raised(r))>>
           ELSE IF FlagLeft(f.shape, f.flag)
                THEN stack' = Outer(2) \o <<EndAttempt(g, Plain("TypeError"))>>
                ELSE stack' = Outer(2) \o <<[g EXCEPT !.pc = "send"]>>
    /\ UNCHANGED <<cache, clock, signing, extra>>

\* line 96-101: requests.request(method=method, url=url, timeout=5,
\* **kwargs) with a timeout in kwargs (send_all_text_message passes
\* timeout=10) is a call with the keyword given twice, a TypeError
TimeoutGivenTwice(ep) == ep = "sendall"

\* lines 96-108: the HTTP call, raise_for_status, check_error
request_send ==
    /\ Running("request", "send")
    /\ IF TimeoutGivenTwice(Top.ep)
       THEN stack' = Outer(1) \o <<EndAttempt(Top, Plain("TypeError"))>>
       ELSE
       \E reply \in Replies(Top) :
          LET f == [Top EXCEPT !.lastReply = reply, !.nsent = @ + 1,
                               !.allRetry = @ /\ ReplyClass(reply) \in RetryableReplies,
                               !.fatalAt = IF ReplyClass(reply) \in FatalReplies
                                           THEN Top.attempt ELSE @]
              c == check_error(reply.j)
          IN  IF reply.kind # "body"
              THEN stack' = Outer(1) \o <<EndAttempt(f, Plain(reply.kind))>>
              ELSE IF c.k = "exc" /\ c.e = "AccessTokenInvalid"
                   THEN stack' = Outer(1) \o
                            <<[f EXCEPT !.pc = "refresh",
                                        !.invalid = IF InjectsToken(f.shape, f.flag)
                                                    THEN f.carried ELSE None],
                              GetAccessTokenFrame(TRUE)>>
              ELSE IF c.k = "exc"
                   THEN stack' = Outer(1) \o <<EndAttempt(f, Raised(c))>>
              ELSE IF Truthy(c.j)
                   THEN stack' = Outer(1) \o <<Done(f, RJson(c.j))>>
                   ELSE stack' = Outer(1) \o <<Done(f, RNone)>>
    /\ UNCHANGED <<cache, clock, signing, extra>>

\* lines 108-109: get_access_token(force=True) came back; raise e
request_refresh ==
    /\ Returned("get_access_token", "request", "refresh")
    /\ LET r == Top.out
           f == Caller
           e == Raised(check_error(f.lastReply.j))
       IN  stack' = Outer(2) \o <<EndAttempt(f, IF r.k = "exc" THEN Raised(r) ELSE e)>>
    /\ UNCHANGED <<cache, clock, signing, extra>>

----------------------------------------------------------------------------
(* The client *)

\* no content, no config: send_all_text_message and get_jssdk_config have
\* not been called
NoContent == [ascii |-> 0, wide |-> 0]
NoConfig == [url |-> "", appId |-> "", signature |-> <<>>, timestamp |-> 0 - 1,
             nonceStr |-> <<>>]
\* check_error is not called on its own, no content is sent, no config is
\* built, no thread shares the client
NothingElse ==
    /\ json = EmptyBody
    /\ classified = Pending
    /\ content = NoContent
    /\ config = NoConfig
    /\ threads = <<>>
    /\ written = <<>>

\* init_app
Init ==
    /\ token = None
    /\ token_expires_at = NoExpiry
    /\ ticket = None
    /\ jsapi_ticket_expires_at = NoExpiry
    /\ clock = 0
    /\ stack = <<>>
    /\ sign_param = <<>>
    /\ sign_param2 = <<>>
    /\ signature = <<>>
    /\ signature2 = <<>>
    /\ NothingElse

Next ==
    \/ CallGetAccessToken
    \/ CallGetJsapiTicket
    \/ CallRequest
    \/ Return
    \/ Tick
    \/ get_access_token_check
    \/ get_access_token_store
    \/ get_jsapi_ticket_check
    \/ jsapi_ticket
    \/ get_jsapi_ticket_store
    \/ request_begin
    \/ request_token
    \/ request_send
    \/ request_refresh

Spec == Init /\ [][Next]_vars

----------------------------------------------------------------------------
(* get_signature (util.py) *)

\* A str is a sequence of character codes; a dict is the sequence of its
\* <<key, value>> items in insertion order, keys distinct.
SignKeys == {<<66>>, <<97>>, <<98>>, <<65, 98>>}    \* "B", "a", "b", "Ab"
SignValues == {<<49>>, <<50>>}                      \* "1", "2"
NoSignature == <<>>

Dicts ==
    {d \in UNION {[1..n -> SignKeys \X SignValues] : n \in 0..MaxParams} :
        \A i, j \in DOMAIN d : i # j => d[i][1] # d[j][1]}

DictKeys(d) == {d[i][1] : i \in DOMAIN d}
DictGet(d, key) == d[CHOOSE i \in DOMAIN d : d[i][1] = key][2]

\* str.lower()
LowerChar(c) == IF c >= 65 /\ c <= 90 THEN c + 32 ELSE c
Lower(str) == [i \in DOMAIN str |-> LowerChar(str[i])]

\* a < b on str: by code point, a proper prefix first
StrLess(a, b) ==
    \E i \in 1..Len(b) :
        /\ \A j \in 1..(i - 1) : j <= Len(a) /\ a[j] = b[j]
        /\ i > Len(a) \/ a[i] < b[i]

\* sorted(keys)
RECURSIVE sorted(_)
sorted(keys) ==
    IF keys = {} THEN <<>>
    ELSE LET first == CHOOSE k \in keys : \A other \in keys \ {k} : StrLess(k, other)
         IN  <<first>> \o sorted(keys \ {first})

\* '&'.join(parts)
RECURSIVE Join(_)
Join(parts) ==
    IF parts = <<>> THEN <<>>
    ELSE IF Len(parts) = 1 THEN parts[1]
    ELSE parts[1] \o <<38>> \o Join(Tail(parts))

\* hashlib.sha1(s).hexdigest(): a function of the bytes hashed, taken to be
\* free of collisions
sha1(str) == <<"sha1", str>>

\* the string line 32 builds
SignedString(d) ==
    LET keys == sorted(DictKeys(d))
    IN  Join([i \in DOMAIN keys |-> Lower(keys[i]) \o <<61>> \o DictGet(d, keys[i])])

get_signature(d) == sha1(SignedString(d))

\* two callers sign one mapping each
SignFirst ==
    /\ signature = NoSignature
    /\ signature' = get_signature(sign_param)
    /\ UNCHANGED <<cache, clock, stack, sign_param, sign_param2, signature2, extra>>

SignSecond ==
    /\ signature2 = NoSignature
    /\ signature2' = get_signature(sign_param2)
    /\ UNCHANGED <<cache, clock, stack, sign_param, sign_param2, signature, extra>>

InitSign ==
    /\ token = None
    /\ token_expires_at = NoExpiry
    /\ ticket = None
    /\ jsapi_ticket_expires_at = NoExpiry
    /\ clock = 0
    /\ stack = <<>>
    /\ sign_param \in Dicts
    /\ sign_param2 \in Dicts
    /\ signature = NoSignature
    /\ signature2 = NoSignature
    /\ NothingElse

NextSign == SignFirst \/ SignSecond

SpecSign == InitSign /\ [][NextSign]_vars

----------------------------------------------------------------------------
(* get_jssdk_config *)

\* str values as character codes
Encode(str) ==
    CASE str = "a1" -> <<97, 49>>
      [] str = "a2" -> <<97, 50>>
      [] str = "t1" -> <<116, 49>>
      [] str = "t2" -> <<116, 50>>
      [] OTHER -> <<>>
\* '%s' % n for an int n >= 0
RECURSIVE Digits(_)
Digits(n) == IF n < 10 THEN <<48 + n>> ELSE Digits(n \div 10) \o <<48 + (n % 10)>>

\* the keys of sign_param: 'noncestr', 'jsapi_ticket', 'timestamp', 'url'
KeyNoncestr == <<110, 111, 110, 99, 101, 115, 116, 114>>
KeyJsapiTicket == <<106, 115, 97, 112, 105, 95, 116, 105, 99, 107, 101, 116>>
KeyTimestamp == <<116, 105, 109, 101, 115, 116, 97, 109, 112>>
KeyUrl == <<117, 114, 108>>
\* the dict of lines 299-304, in the order it is written
JssdkSignParam(noncestr, ticket_value, timestamp, url) ==
    << <<KeyNoncestr, noncestr>>, <<KeyJsapiTicket, ticket_value>>,
       <<KeyTimestamp, Digits(timestamp)>>, <<KeyUrl, url>> >>

\* the urls a page may have ("/a", "/b"), and what get_random_string(15,
\* True) may give, cut to one character ("x", "y")
Urls == {<<47, 97>>, <<47, 98>>}
Nonces == {<<120>>, <<121>>}
\* self.appid
AppId == "appid"

RConfig == [Pending EXCEPT !.k = "config"]
GetJssdkConfigFrame ==
    Frame("get_jssdk_config", FALSE, "-", "-", FALSE, None, ticket,
          jsapi_ticket_expires_at)

\* a page asks for its configuration
CallGetJssdkConfig ==
    /\ stack = <<>>
    /\ \E url \in Urls :
          /\ config' = [NoConfig EXCEPT !.url = url]
          /\ stack' = <<GetJssdkConfigFrame>>
    /\ UNCHANGED <<cache, clock, signing, json, classified, content, threads, written>>

\* line 298: jsapi_ticket = self.get_jsapi_ticket()
get_jssdk_config ==
    /\ Running("get_jssdk_config", "check")
    /\ stack' = Outer(1) \o <<[Top EXCEPT !.pc = "sign"], GetJsapiTicketFrame(FALSE)>>
    /\ UNCHANGED <<cache, clock, signing, extra>>

\* lines 298-310: get_jsapi_ticket() came back; the nonce, the timestamp,
\* the signature and the config
get_jssdk_config_sign ==
    /\ Returned("get_jsapi_ticket", "get_jssdk_config", "sign")
    /\ LET r == Top.out
           f == Caller
       IN  IF r.k = "exc"
           THEN /\ stack' = Outer(2) \o <<Done(f, r)>>
                /\ UNCHANGED <<sign_param, signature, config>>
           ELSE \E noncestr \in Nonces :
                  /\ sign_param' = JssdkSignParam(noncestr, Encode(r.s), IntTime,
                                                  config.url)
                  /\ signature' = get_signature(sign_param')
                  /\ config' = [config EXCEPT !.appId = AppId,
                                              !.signature = signature',
                                              !.timestamp = IntTime,
                                              !.nonceStr = noncestr]
                  /\ stack' = Outer(2) \o <<Done(f, RConfig)>>
    /\ UNCHANGED <<cache, clock, sign_param2, signature2, json, classified,
                   content, threads, written>>

\* the client serving pages; the stack is too deep here for the platform to
\* answer 40001 (see Replies), so request_refresh has nothing to do
NextConfig ==
    \/ CallGetJssdkConfig
    \/ get_jssdk_config
    \/ get_jssdk_config_sign
    \/ Return
    \/ Tick
    \/ get_access_token_check
    \/ get_access_token_store
    \/ get_jsapi_ticket_check
    \/ jsapi_ticket
    \/ get_jsapi_ticket_store
    \/ request_begin
    \/ request_token
    \/ request_send

SpecConfig == Init /\ [][NextConfig]_vars

----------------------------------------------------------------------------
(* check_error on its own *)

\* the bodies given to check_error: no errcode, 0, 40001 and two other
\* codes; with and without errmsg; with and without a payload
CheckCodes == {NoCode, 0, 1, AccessTokenInvalidCode, OtherCode}
CheckBodies ==
    {Body(c, m, v, t, d) : c \in CheckCodes,
                           m \in {Absent, "ok", "invalid credential"},
                           v \in {Absent, "a1"}, t \in {NoExpiry, 61},
                           d \in BOOLEAN}

CallCheckError ==
    /\ classified = Pending
    /\ classified' = check_error(json)
    /\ UNCHANGED <<cache, clock, stack, signing, json, content, config, threads,
                   written>>

InitCheck ==
    /\ token = None
    /\ token_expires_at = NoExpiry
    /\ ticket = None
    /\ jsapi_ticket_expires_at = NoExpiry
    /\ clock = 0
    /\ stack = <<>>
    /\ sign_param = <<>>
    /\ sign_param2 = <<>>
    /\ signature = <<>>
    /\ signature2 = <<>>
    /\ json \in CheckBodies
    /\ classified = Pending
    /\ content = NoContent
    /\ config = NoConfig
    /\ threads = <<>>
    /\ written = <<>>

NextCheck == CallCheckError

SpecCheck == InitCheck /\ [][NextCheck]_vars

----------------------------------------------------------------------------
(* send_all_text_message *)

\* assert len(content.encode('utf-8')) < 2048
SizeLimit == 2048
\* A content is so many characters of one byte in UTF-8 (ASCII) and so many
\* of three bytes (CJK).
Contents ==
    {[ascii |-> a, wide |-> w] :
        a \in {SizeLimit - 7, SizeLimit - 6, SizeLimit - 4, SizeLimit - 3,
                SizeLimit - 1, SizeLimit},
        w \in {0, 1, 2}}
\* len(content)
CharacterCount(c) == c.ascii + c.wide
\* len(content.encode('utf-8'))
EncodedLength(c) == c.ascii + 3 * c.wide

SendAllTextMessageFrame ==
    Frame("send_all_text_message", FALSE, "-", "-", FALSE, None, None, NoExpiry)

CallSendAllTextMessage ==
    /\ stack = <<>>
    /\ content' \in Contents
    /\ stack' = <<SendAllTextMessageFrame>>
    /\ UNCHANGED <<cache, clock, signing, json, classified, config, threads, written>>

\* lines 319-334: the assert, then self.post(url, data=..., timeout=10), a
\* request without params
send_all_text_message ==
    /\ Running("send_all_text_message", "check")
    /\ IF EncodedLength(content) < SizeLimit
       THEN stack' = Outer(1) \o <<[Top EXCEPT !.pc = "post"],
                                  RequestFrame("sendall", "none", FALSE)>>
       ELSE stack' = Outer(1) \o <<Done(Top, RExc(Plain("AssertionError")))>>
    /\ UNCHANGED <<cache, clock, signing, extra>>

\* line 320: return self.post(...)
send_all_text_message_return ==
    /\ Returned("request", "send_all_text_message", "post")
    /\ stack' = Outer(2) \o <<Done(Caller, Top.out)>>
    /\ UNCHANGED <<cache, clock, signing, extra>>

\* the client sending broadcasts; the stack is too deep here for the
\* platform to answer 40001 (see Replies), so request_refresh has nothing
\* to do
NextSend ==
    \/ CallSendAllTextMessage
    \/ send_all_text_message
    \/ send_all_text_message_return
    \/ Return
    \/ Tick
    \/ get_access_token_check
    \/ get_access_token_store
    \/ request_begin
    \/ request_token
    \/ request_send

SpecSend == Init /\ [][NextSend]_vars

----------------------------------------------------------------------------
(* get_access_token called by two threads that share one client *)

\* The client holds no lock.  A thread may be switched out between any two
\* lines of get_access_token; each action below is one line (the test of
\* lines 58-61 is taken as one).  grant_token() is taken as one step that
\* brings a body with access_token and expires_in or raises; the platform
\* answers no 40001 here.
Threads == {1, 2}
NoThread == 0
IdleThread == [pc |-> "idle", force |-> FALSE, j |-> EmptyBody, out |-> Pending]
TokenBodies ==
    {Body(NoCode, "", v, t, FALSE) : v \in TokenValues, t \in TTLs}

\* a thread calls get_access_token(force)
race_call(t) ==
    /\ threads[t].pc = "idle"
    /\ \E force \in BOOLEAN :
          threads' = [threads EXCEPT ![t] = [@ EXCEPT !.pc = "check", !.force = force]]
    /\ UNCHANGED <<cache, clock, stack, signing, json, classified, content, config,
                   written>>

\* lines 58-61
race_check(t) ==
    /\ threads[t].pc = "check"
    /\ LET th == threads[t] IN
       IF UseCached(th.force, token)
       THEN IF token_expires_at = NoExpiry
            THEN threads' = [threads EXCEPT ![t] =
                               [th EXCEPT !.pc = "done", !.out = RExc(Plain("TypeError"))]]
            ELSE IF Usable(token_expires_at)
                 THEN threads' = [threads EXCEPT ![t] =
                                    [th EXCEPT !.pc = "done", !.out = RStr(token)]]
                 ELSE threads' = [threads EXCEPT ![t] = [th EXCEPT !.pc = "grant_token"]]
       ELSE threads' = [threads EXCEPT ![t] = [th EXCEPT !.pc = "grant_token"]]
    /\ UNCHANGED <<cache, clock, stack, signing, json, classified, content, config,
                   written>>

\* line 62: json = self.grant_token()
race_grant_token(t) ==
    /\ threads[t].pc = "grant_token"
    /\ \/ \E j \in TokenBodies :
             threads' = [threads EXCEPT ![t] = [@ EXCEPT !.pc = "store_token", !.j = j]]
       \/ \E e \in {"ReadTimeout", "ClientException"} :
             threads' = [threads EXCEPT ![t] =
                            [@ EXCEPT !.pc = "done", !.out = RExc(Plain(e))]]
    /\ UNCHANGED <<cache, clock, stack, signing, json, classified, content, config,
                   written>>

\* line 63: self._token = json["access_token"]
race_store_token(t) ==
    /\ threads[t].pc = "store_token"
    /\ token' = threads[t].j.value
    /\ written' = [written EXCEPT !.value = t]
    /\ threads' = [threads EXCEPT ![t] = [@ EXCEPT !.pc = "store_expires_at"]]
    /\ UNCHANGED <<token_expires_at, ticket, jsapi_ticket_expires_at, clock, stack,
                   signing, json, classified, content, config>>

\* lines 64-65: self.token_expires_at = int(time.time()) + json["expires_in"];
\* return self._token
race_store_expires_at(t) ==
    /\ threads[t].pc = "store_expires_at"
    /\ token_expires_at' = IntTime + threads[t].j.ttl
    /\ written' = [written EXCEPT !.expiry = t]
    /\ threads' = [threads EXCEPT ![t] = [@ EXCEPT !.pc = "done", !.out = RStr(token)]]
    /\ UNCHANGED <<token, ticket, jsapi_ticket_expires_at, clock, stack, signing,
                   json, classified, content, config>>

InitRace ==
    /\ token = None
    /\ token_expires_at = NoExpiry
    /\ ticket = None
    /\ jsapi_ticket_expires_at = NoExpiry
    /\ clock = 0
    /\ stack = <<>>
    /\ sign_param = <<>>
    /\ sign_param2 = <<>>
    /\ signature = <<>>
    /\ signature2 = <<>>
    /\ json = EmptyBody
    /\ classified = Pending
    /\ content = NoContent
    /\ config = NoConfig
    /\ threads = [t \in Threads |-> IdleThread]
    /\ written = [value |-> NoThread, expiry |-> NoThread]

NextRace ==
    \/ \E t \in Threads : race_call(t)
    \/ \E t \in Threads : race_check(t)
    \/ \E t \in Threads : race_grant_token(t)
    \/ \E t \in Threads : race_store_token(t)
    \/ \E t \in Threads : race_store_expires_at(t)
    \/ Tick

SpecRace == InitRace /\ [][NextRace]_vars

----------------------------------------------------------------------------
(* Properties *)

RequestFrames == {stack[i] : i \in {n \in DOMAIN stack : stack[n].fn = "request"}}
RetryableErrors == {"AccessTokenInvalid", "ReadTimeout", "ConnectTimeout"}

\* C1: when the platform answers attempt N < 3 of a request with errcode
\* 40001, the access credential attempt N+1 is sent with differs from the
\* one attempt N was sent with, or was fetched after it, whatever became of
\* the refresh in between.  Stated where self.token hands attempt N+1 its
\* credential: it is not the credential that was answered 40001 and has not
\* been replaced since.
C1_RetryCarriesRenewedCredential ==
    (/\ Returned("get_access_token", "request", "token")
     /\ Top.out.k = "str"
     /\ Caller.invalid # None)
    => Top.out.s # Caller.invalid

C3_RequestTerminates ==
    \A i, j \in DOMAIN stack :
        (i < j /\ stack[i].fn = "request" /\ stack[j].fn = "request")
        => <<stack[i].ep, stack[i].shape, stack[i].flag, stack[i].attempt>>
             # <<stack[j].ep, stack[j].shape, stack[j].flag, stack[j].attempt>>

GetKinds == {"get_access_token", "get_jsapi_ticket"}
CachedValue(fn) == IF fn = "get_access_token" THEN token ELSE ticket
CachedExpiry(fn) ==
    IF fn = "get_access_token" THEN token_expires_at ELSE jsapi_ticket_expires_at
\* the cache after the step
NextCachedValue(fn) == IF fn = "get_access_token" THEN token' ELSE ticket'
NextCachedExpiry(fn) ==
    IF fn = "get_access_token" THEN token_expires_at' ELSE jsapi_ticket_expires_at'
\* seconds left of an expiry, times TicksPerSecond
TicksLeft(expires_at) == expires_at * TicksPerSecond - clock

\* the get at the top of the stack starts its fetch in this step:
\* grant_token() for the access credential, jsapi_ticket() for the ticket
FetchInvoked ==
    LET n == Len(stack)
    IN  /\ Len(stack') = n + 1
        /\ cache' = cache
        /\ IF Top.fn = "get_access_token"
           THEN /\ stack'[n] = [Top EXCEPT !.pc = "store"]
                /\ stack'[n + 1].fn = "request" /\ stack'[n + 1].ep = "token"
           ELSE /\ stack'[n] = [Top EXCEPT !.pc = "jsapi_ticket"]
                /\ stack'[n + 1].fn = "get_access_token"

\* C4: for both kinds, get(force=false) with a cached credential that has
\* more than 60 s left returns it, fetches nothing and leaves the cache as
\* it is; with nothing cached, or with 60 s or less left, it starts the fetch.
C4_CacheFreshness ==
    [][(/\ Len(stack) >= 1
        /\ Top.fn \in GetKinds /\ Top.pc = "check" /\ ~Top.force
        /\ stack' # stack)
       => LET value == CachedValue(Top.fn)
              expires_at == CachedExpiry(Top.fn)
          IN  IF value # None /\ expires_at # NoExpiry
                 /\ TicksLeft(expires_at) > 60 * TicksPerSecond
              THEN /\ stack' = Outer(1) \o <<Done(Top, RStr(value))>>
                   /\ cache' = cache
              ELSE IF value = None
                      \/ (expires_at # NoExpiry
                          /\ TicksLeft(expires_at) <= 60 * TicksPerSecond)
              THEN FetchInvoked
              ELSE TRUE]_vars

\* get_access_token() has started grant_token() for a cached credential
\* that has exactly 60 s left
C4_Witness ==
    /\ Len(stack) = 2
    /\ stack[1].fn = "get_access_token" /\ stack[1].pc = "store" /\ ~stack[1].force
    /\ stack[2].fn = "request" /\ stack[2].pc = "begin" /\ stack[2].nsent = 0
    /\ token # None /\ token_expires_at # NoExpiry
    /\ TicksLeft(token_expires_at) = 60 * TicksPerSecond

\* C5: when get(kind) fetches, it stores the fetched value with
\* expires_at = now + ttl and returns that value, which is the value the
\* cache then holds for the kind; the ticket accessor returns the ticket.
C5_GetReturnsFetchedCredential ==
    [][(/\ Len(stack) >= 2
        /\ Top.fn = "request" /\ Top.pc = "done" /\ Top.out.k = "json"
        /\ Top.out.j.value # Absent /\ Top.out.j.ttl # NoExpiry
        /\ Caller.fn \in GetKinds /\ Caller.pc = "store"
        /\ stack' # stack)
       => LET n == Len(stack) - 1
          IN  /\ Len(stack') = n
              /\ stack'[n].pc = "done"
              /\ stack'[n].out = RStr(Top.out.j.value)
              /\ NextCachedValue(Caller.fn) = Top.out.j.value
              /\ stack'[n].out.s = NextCachedValue(Caller.fn)
              /\ NextCachedExpiry(Caller.fn) = IntTime + Top.out.j.ttl]_vars

\* C6: for both kinds, get(force=true) starts the fetch in every state of
\* the cache, and a fetch that brings a value and a ttl replaces the cached
\* value and expiry by them.
C6_ForcedRefresh ==
    [][/\ (/\ Len(stack) >= 1
           /\ Top.fn \in GetKinds /\ Top.pc = "check" /\ Top.force
           /\ stack' # stack)
          => FetchInvoked
       /\ (/\ Len(stack) >= 2
           /\ Top.fn = "request" /\ Top.pc = "done" /\ Top.out.k = "json"
           /\ Top.out.j.value # Absent /\ Top.out.j.ttl # NoExpiry
           /\ Caller.fn \in GetKinds /\ Caller.pc = "store" /\ Caller.force
           /\ stack' # stack)
          => /\ NextCachedValue(Caller.fn) = Top.out.j.value
             /\ NextCachedExpiry(Caller.fn) = IntTime + Top.out.j.ttl]_vars

\* get_jsapi_ticket(force=True) has replaced a cached ticket that had more
\* than 60 s left by another one
C6_Witness ==
    /\ Len(stack) = 1
    /\ Top.fn = "get_jsapi_ticket" /\ Top.force /\ Top.pc = "done"
    /\ Top.out.k = "str"
    /\ Top.snapVal # None /\ Top.snapExp # NoExpiry
    /\ TicksLeft(Top.snapExp) > 60 * TicksPerSecond
    /\ ticket # Top.snapVal

\* C7: when get(kind) raises, the cached value and the cached expiry of the
\* kind are what they were when it was called.
C7_FailedGetLeavesCache ==
    \A i \in DOMAIN stack :
        (stack[i].fn \in GetKinds /\ stack[i].pc = "done" /\ stack[i].out.k = "exc")
        => /\ CachedValue(stack[i].fn) = stack[i].snapVal
           /\ CachedExpiry(stack[i].fn) = stack[i].snapExp

\* C8: an attempt answered by a nonzero errcode other than 40001, or failed
\* by a transport error that is no timeout, is the last one: the request is
\* over at that attempt and raises that error, with the code and message of
\* the server.
C8_FatalNotRetried ==
    \A f \in RequestFrames :
        f.fatalAt # 0
        => /\ f.pc = "done"
           /\ f.attempt = f.fatalAt
           /\ f.out.k = "exc"
           /\ IF f.lastReply.kind = "body"
              THEN /\ f.lastReply.j.errcode \notin {NoCode, 0, 40001}
                   /\ f.out.e = "ClientException"
                   /\ f.out.code = f.lastReply.j.errcode
                   /\ f.out.msg = f.lastReply.j.errmsg
              ELSE /\ f.lastReply.kind \notin {"ReadTimeout", "ConnectTimeout"}
                   /\ f.out.e = f.lastReply.kind

\* a request was answered by an error code on its second attempt and
\* raised it
C8_Witness ==
    \E f \in RequestFrames :
        /\ f.pc = "done" /\ f.fatalAt = 2 /\ f.attempt = 2 /\ f.nsent = 2
        /\ f.out.k = "exc" /\ f.out.e = "ClientException"
        /\ f.out.code = OtherCode

\* C9 as stated: every attempt of a request without oauth2_access_token is
\* sent with the current access credential, whether params is absent, holds
\* an access_token or holds none.
C9_EveryShapeInjected ==
    (Running("request", "send") /\ ~Top.flag)
    => (Top.carried = token /\ token # None)

\* C9: an attempt of a request without oauth2_access_token is sent with the
\* current access credential, which get_access_token(force=False) returned
\* to it, when params is absent or holds an access_token; when params holds
\* no access_token it is sent with none.
C9_CredentialInjection ==
    /\ (Running("request", "send") /\ ~Top.flag)
       => IF Top.shape \in {"none", "with"}
          THEN Top.carried = token /\ token # None
          ELSE Top.carried = None
    /\ Returned("get_access_token", "request", "token") => ~Top.force

\* the second attempt of a request whose params hold an access_token is
\* about to be sent with the cached credential
C9_Witness ==
    /\ Running("request", "send")
    /\ ~Top.flag /\ Top.shape = "with" /\ Top.ep = "api" /\ Top.attempt = 2
    /\ Top.carried = token /\ token \in TokenValues

\* the (lower-cased name, value) pairs of a mapping
SignEntries(d) == {<<Lower(d[i][1]), d[i][2]>> : i \in DOMAIN d}
\* no two keys of the mapping differ only in case
NoTwoKeysAlike(d) ==
    \A i, j \in DOMAIN d : i # j => Lower(d[i][1]) # Lower(d[j][1])

\* C10: get_signature depends only on the (lower-cased name, value) pairs:
\* two mappings that differ only in the case of their keys or in insertion
\* order get the same signature.
C10_SignatureDeterminism ==
    (/\ signature # NoSignature /\ signature2 # NoSignature
     /\ NoTwoKeysAlike(sign_param) /\ NoTwoKeysAlike(sign_param2)
     /\ SignEntries(sign_param) = SignEntries(sign_param2))
    => signature = signature2

\* the value of the entry whose lower-cased name is name
EntryValue(d, name) == d[CHOOSE i \in DOMAIN d : Lower(d[i][1]) = name][2]
\* the canonical string of a mapping: names lower-cased, entries ascending
\* by the lower-cased name, name=value joined with '&'
CanonicalString(d) ==
    LET names == sorted({Lower(k) : k \in DictKeys(d)})
    IN  Join([i \in DOMAIN names |-> names[i] \o <<61>> \o EntryValue(d, names[i])])

\* C11: for every mapping (no two names alike up to case) the string
\* get_signature hashes is the canonical string, the entries ordered by
\* their lower-cased names; the signature is its SHA-1.
C11_CanonicalForm ==
    (signature # NoSignature /\ NoTwoKeysAlike(sign_param))
    => signature = sha1(CanonicalString(sign_param))

\* C12: when get_jssdk_config returns a config, its signature is the
\* signature of {noncestr, jsapi_ticket, timestamp, url} with the ticket the
\* cache holds at that moment, the nonce and the timestamp of the config,
\* and the url given; whether the ticket was cached or fetched by the call.
C12_ConfigSignsCurrentTicket ==
    (/\ Len(stack) = 1
     /\ Top.fn = "get_jssdk_config" /\ Top.pc = "done" /\ Top.out.k = "config")
    => config.signature
         = get_signature(JssdkSignParam(config.nonceStr, Encode(ticket),
                                        config.timestamp, config.url))

\* C13: check_error classifies by errcode alone: a body with no errcode or
\* errcode 0 is returned as it is; errcode 40001 raises AccessTokenInvalid
\* and every other nonzero errcode raises a ClientException that is no
\* AccessTokenInvalid, both with the code and the message of the body.  (A
\* body with a nonzero errcode and no errmsg, which is no envelope of the
\* platform, raises KeyError.)
C13_EnvelopeClassification ==
    classified # Pending
    => IF json.errcode \in {NoCode, 0}
       THEN classified = RJson(json)
       ELSE IF json.errmsg = Absent
       THEN classified = RExc(Plain("KeyError"))
       ELSE IF json.errcode = 40001
       THEN classified = RExc(Exc("AccessTokenInvalid", 40001, json.errmsg))
       ELSE classified = RExc(Exc("ClientException", json.errcode, json.errmsg))

\* check_error has raised AccessTokenInvalid for a body with errcode 40001
\* that also holds a payload
C13_Witness ==
    /\ json.errcode = 40001 /\ json.errmsg = "invalid credential"
    /\ json.value # Absent
    /\ classified.k = "exc" /\ classified.e = "AccessTokenInvalid"

\* C14: a request whose last attempt was answered by a body without errcode
\* or with errcode 0 returns that body to its caller, the empty body {} and
\* a body that holds nothing but the envelope included; it never returns
\* None.
C14_SuccessReturnsPayload ==
    \A f \in RequestFrames :
        (f.pc = "done" /\ f.lastReply.kind = "body"
            /\ f.lastReply.j.errcode \in {NoCode, 0})
        => f.out = RJson(f.lastReply.j)

\* C15: a request that raises AccessTokenInvalid to its caller has made
\* exactly 3 attempts; until then an AccessTokenInvalid, whether of its own
\* reply or of the credential fetch it called, is retried.
C15_InvalidOnlyAfterCap ==
    \A f \in RequestFrames :
        (f.pc = "done" /\ f.out.k = "exc" /\ f.out.e = "AccessTokenInvalid")
        => f.attempt = 3

\* a delegated call has made three attempts, the third was answered 40001,
\* the refresh after it succeeded, and the call raised AccessTokenInvalid
C15_Witness ==
    /\ Len(stack) = 1
    /\ Top.fn = "request" /\ Top.flag /\ Top.shape = "with"
    /\ Top.pc = "done" /\ Top.attempt = 3 /\ Top.nsent = 3
    /\ Top.out.k = "exc" /\ Top.out.e = "AccessTokenInvalid"
    /\ Top.out.code = 40001
    /\ token # None

C17_DelegatedKeepsCredential ==
    /\ \A f \in RequestFrames :
          (f.flag /\ f.shape = "with") => f.carried = UserValue
    /\ Returned("get_access_token", "request", "token")
       => ~(Caller.flag /\ Caller.shape = "with")

\* the second attempt of a delegated call, after a 40001 and the refresh of
\* the client's own credential, is about to be sent with the caller's
\* access_token
C17_Witness ==
    /\ Running("request", "send")
    /\ Top.flag /\ Top.shape = "with" /\ Top.attempt = 2
    /\ Top.carried = UserValue
    /\ token \in TokenValues

\* C18: the ticket and its expiry change only when get_jsapi_ticket stores
\* a fetched ticket (no step of get_access_token or of a request changes
\* them); get_jsapi_ticket(force=False) returns the cached ticket exactly
\* when the ticket's own expiry is more than 60 s away; and the expiry it
\* stores is int(now) plus the expires_in of the ticket reply.
C18_KindsIndependent ==
    [][/\ (<<ticket, jsapi_ticket_expires_at>>' # <<ticket, jsapi_ticket_expires_at>>)
          => Returned("request", "get_jsapi_ticket", "store")
       /\ (/\ Len(stack) >= 1
           /\ Top.fn = "get_jsapi_ticket" /\ Top.pc = "check" /\ ~Top.force
           /\ stack' # stack)
          => ((stack' = Outer(1) \o <<Done(Top, RStr(ticket))>>)
              <=> (/\ ticket # None /\ jsapi_ticket_expires_at # NoExpiry
                   /\ TicksLeft(jsapi_ticket_expires_at) > 60 * TicksPerSecond))
       /\ (/\ Returned("request", "get_jsapi_ticket", "store")
           /\ Top.out.k = "json"
           /\ Top.out.j.value # Absent /\ Top.out.j.ttl # NoExpiry
           /\ stack' # stack)
          => /\ ticket' = Top.out.j.value
             /\ jsapi_ticket_expires_at' = IntTime + Top.out.j.ttl
             /\ <<token, token_expires_at>>' = <<token, token_expires_at>>]_vars

\* get_access_token(force=True) has stored a token while a ticket with
\* another expiry stays cached
C18_Witness ==
    /\ Len(stack) = 1
    /\ Top.fn = "get_access_token" /\ Top.force /\ Top.pc = "done"
    /\ Top.out.k = "str" /\ Top.out.s = token /\ Top.snapVal # token
    /\ ticket # None /\ jsapi_ticket_expires_at # NoExpiry
    /\ jsapi_ticket_expires_at # token_expires_at

\* C19: when both threads have completed get_access_token on the shared
\* client, the cached token and the cached expiry were written by the same
\* call, so that they come from the same reply of grant_token.
C19_ValueAndExpiryFromOneFetch ==
    (\A t \in Threads : threads[t].pc = "done")
    => written.value = written.expiry

====
